---- MODULE Spec2Model ----
(***************************************************************************)
(* A model of NP.py: the training program of a neural process for image    *)
(* completion.  The module holds                                            *)
(*   - Spec      : main() and train(): resume, the epoch/batch loop, the    *)
(*                 progress logs and the final save_model;                  *)
(*   - SpecCkpt  : save_model followed by load_models on arbitrary          *)
(*                 parameter values;                                        *)
(*   - SpecAgg, SpecLoss, SpecKl, SpecGrid : the numerical building blocks  *)
(*                 of one batch step, applied to inputs drawn from bounded  *)
(*                 sets.                                                    *)
(* Real numbers are kept exact: a quotient is a pair [num, den], a sum of   *)
(* batch losses is the bag of its summands, and a float32 value that went   *)
(* through exp() is a polynomial in e with the IEEE special values.         *)
(***************************************************************************)
EXTENDS Integers, Sequences, FiniteSets, Bags, TLC

(* ------------------------------ bounds -------------------------------- *)
MaxEpochs == 3
MaxBsize == 2
MaxSaveCadence == 2
MaxDataset == 201
MaxParam == 1
MaxPoints == 3
MaxPixels == 2
MaxLevel == 2
MaxLatent == 2
MaxSide == 3

(* -------------------------- program constants ------------------------- *)
LogEvery == 100
H == 28
W == 28
HiddenSize == 64
\* torch.exp on float32: finite and not 0 for arguments in ExpMin..ExpMax.
ExpMin == -103
ExpMax == 88

Epochs == 0..MaxEpochs
Bsizes == 1..MaxBsize
SaveCadences == 1..MaxSaveCadence
DatasetSizes == {1, 2, 3, MaxDataset}
Devices == {"cpu", "cuda"}

(* ----------------------------- variables ------------------------------ *)
VARIABLES pc, error, args, dataset_len, device, fs,
          context_encoder, context_to_dist, decoder,
          epoch, batch_idx, loss, grads, running_loss, epoch_loss,
          optimizer_steps, stdout, saves

prog == <<pc, error, args, dataset_len, device, fs,
          context_encoder, context_to_dist, decoder,
          epoch, batch_idx, loss, grads, running_loss, epoch_loss,
          optimizer_steps, stdout, saves>>

\* The state of one batch step's numerical building blocks, used by the
\* specifications that apply them to drawn inputs.
VARIABLES fpc, h, w, grid, batch, mask, context_data, context_full,
          r_masked, r_full, z_params_full, z_params_masked, kl, kl_loss,
          target_input, reconstructed_image, reconstruction_loss

tensors == <<fpc, h, w, grid, batch, mask, context_data, context_full,
             r_masked, r_full, z_params_full, z_params_masked, kl, kl_loss,
             target_input, reconstructed_image, reconstruction_loss>>

\* The three networks as they were when save_model was called (history).
VARIABLE saved_from

vars == <<prog, tensors, saved_from>>

(* ------------------------- the three networks ------------------------- *)
\* nn.Linear(in, out) keeps a weight of shape (out, in); one value stands for
\* the layer's parameters.
EncoderShapes ==
    [layer1 |-> <<128, 3>>, layer2 |-> <<128, 128>>, layer3 |-> <<64, 128>>]

DistShapes ==
    [mu_layer |-> <<64, 64>>, logvar_layer |-> <<64, 64>>]

DecoderShapes ==
    [layer1 |-> <<32, 66>>, layer2 |-> <<16, 32>>, layer3 |-> <<1, 16>>]

\* A module on the host with every layer's parameters equal to v.
Module(shapes, v) ==
    [device |-> "cpu",
     state |-> [l \in DOMAIN shapes |-> [shape |-> shapes[l], val |-> v]]]

state_dict(m) == m.state

cpu(m) == [m EXCEPT !.device = "cpu"]

to(m, d) == [m EXCEPT !.device = d]

\* load_state_dict is strict: the keys and every shape must match.
LoadAccepted(m, sd) ==
    /\ DOMAIN sd = DOMAIN m.state
    /\ \A l \in DOMAIN sd : sd[l].shape = m.state[l].shape

\* load_state_dict that checks and copies nothing.
load_state_dict_no_copy(m, sd) == m

load_state_dict(m, sd) ==
    [m EXCEPT !.state = [l \in DOMAIN m.state |->
                            [shape |-> m.state[l].shape, val |-> sd[l].val]]]

\* One optimizer step changes every parameter it was given.
Stepped(m) ==
    [m EXCEPT !.state = [l \in DOMAIN m.state |->
                            [m.state[l] EXCEPT !.val = @ + 1]]]

(* ---------------------------- checkpoints ----------------------------- *)
Keys == {"encoder", "context_to_latent_dist", "decoder"}

NoPath == <<>>

ResumePath == <<"", "resume", 0>>

ModelsPath == "models/"

\* os.path.join(models_path, "NP_model_epoch_{}.pt".format(n))
ModelPath(n) == <<ModelsPath, "NP_model_epoch", n>>

save_model(files, file_path, enc, dist, dec, dev) ==
    LET model_states_dict ==
            [k \in Keys |->
                CASE k = "encoder" -> state_dict(cpu(enc))
                  [] k = "context_to_latent_dist" -> state_dict(cpu(dist))
                  [] k = "decoder" -> state_dict(cpu(dec))]
    IN [fs |-> [p \in DOMAIN files \cup {file_path} |->
                    IF p = file_path THEN model_states_dict ELSE files[p]],
        encoder |-> to(cpu(enc), dev),
        context_to_latent_dist |-> to(cpu(dist), dev),
        decoder |-> to(cpu(dec), dev)]

(* ------------------------------ the data ------------------------------ *)
\* DataLoader(dataset, batch_size = S): ceil(D / S) batches, the last one
\* holding what is left (drop_last is not set).
len_train_loader == (dataset_len + args.bsize - 1) \div args.bsize

BatchSize(i) ==
    IF (i + 1) * args.bsize <= dataset_len
    THEN args.bsize
    ELSE dataset_len - i * args.bsize

\* The sum of batch losses, kept as the bag of its summands: the loss of batch
\* b of epoch e is the summand <<e, b>>.
Zero == EmptyBag

Plus(acc, x) == acc (+) SetToBag({x})

(* --------------------------- main(): resume --------------------------- *)
GoodState(shapes) == Module(shapes, 1).state

\* What a file at the resume path may hold for one key: nothing, a state
\* dict of another architecture, or a state dict of this one.
KeyContents == {<<"absent">>, <<"bad">>, <<"good">>}

CheckpointOf(e, c, d) ==
    LET has == {k \in Keys :
                    CASE k = "encoder" -> e # <<"absent">>
                      [] k = "context_to_latent_dist" -> c # <<"absent">>
                      [] k = "decoder" -> d # <<"absent">>}
    IN [k \in has |->
            CASE k = "encoder" ->
                    IF e = <<"good">> THEN GoodState(EncoderShapes) ELSE <<>>
              [] k = "context_to_latent_dist" ->
                    IF c = <<"good">> THEN GoodState(DistShapes) ELSE <<>>
              [] k = "decoder" ->
                    IF d = <<"good">> THEN GoodState(DecoderShapes) ELSE <<>>]

ResumeFiles ==
    {CheckpointOf(e, c, d) : e \in KeyContents, c \in KeyContents,
                             d \in KeyContents}

NoTensors ==
    /\ fpc = "none"
    /\ h = H
    /\ w = W
    /\ grid = <<>>
    /\ batch = <<>>
    /\ mask = <<>>
    /\ context_data = <<>>
    /\ context_full = <<>>
    /\ r_masked = <<>>
    /\ r_full = <<>>
    /\ z_params_full = <<>>
    /\ z_params_masked = <<>>
    /\ kl = <<>>
    /\ kl_loss = <<>>
    /\ target_input = <<>>
    /\ reconstructed_image = <<>>
    /\ reconstruction_loss = <<>>

\* A file torch.load cannot unpickle.
Corrupt == [corrupt |-> <<>>]

Init ==
    /\ NoTensors
    /\ saved_from = <<>>
    /\ pc = "main"
    /\ error = "none"
    /\ \E e \in Epochs, b \in Bsizes, k \in SaveCadences,
          r \in {NoPath, ResumePath} :
          args = [epochs |-> e, bsize |-> b, save_model |-> k,
                  resume_file |-> r, models_path |-> ModelsPath]
    /\ dataset_len \in DatasetSizes
    /\ device \in Devices
    \* The file at the resume path is missing, unreadable or holds any of
    \* ResumeFiles; without a resume path no file is read.
    /\ \/ fs = <<>>
       \/ /\ args.resume_file # NoPath
          /\ \E f \in ResumeFiles \cup {Corrupt} :
                fs = [p \in {ResumePath} |-> f]
    /\ context_encoder = Module(EncoderShapes, 0)
    /\ context_to_dist = Module(DistShapes, 0)
    /\ decoder = Module(DecoderShapes, 0)
    /\ epoch = 0
    /\ batch_idx = 0
    /\ loss = <<>>
    /\ grads = "none"
    /\ running_loss = Zero
    /\ epoch_loss = Zero
    /\ optimizer_steps = 0
    /\ stdout = <<>>
    /\ saves = <<>>

Raise(what) ==
    /\ pc' = "error"
    /\ error' = what

\* main, line 202: no resume file, no load.
NoResume ==
    /\ pc = "main"
    /\ args.resume_file = NoPath
    /\ pc' = "to_device"
    /\ UNCHANGED <<tensors, saved_from>>
    /\ UNCHANGED <<error, args, dataset_len, device, fs, context_encoder,
                   context_to_dist, decoder, epoch, batch_idx, loss, grads,
                   running_loss, epoch_loss, optimizer_steps, stdout, saves>>

\* load_models, line 65: torch.load(file_path).
TorchLoad ==
    /\ pc = "main"
    /\ args.resume_file # NoPath
    /\ IF args.resume_file \notin DOMAIN fs
       THEN Raise("FileNotFoundError")
       ELSE IF fs[args.resume_file] = Corrupt
       THEN Raise("UnpicklingError")
       ELSE pc' = "load_encoder" /\ error' = error
    /\ UNCHANGED <<tensors, saved_from>>
    /\ UNCHANGED <<args, dataset_len, device, fs, context_encoder,
                   context_to_dist, decoder, epoch, batch_idx, loss, grads,
                   running_loss, epoch_loss, optimizer_steps, stdout, saves>>

\* One line of load_models: net.load_state_dict(dict[key]).
LoadOutcome(key, m) ==
    LET dict == fs[args.resume_file]
    IN IF key \notin DOMAIN dict THEN "KeyError"
       ELSE IF ~LoadAccepted(m, dict[key]) THEN "RuntimeError"
       ELSE "ok"

LoadEncoder ==
    /\ pc = "load_encoder"
    /\ IF LoadOutcome("encoder", context_encoder) = "ok"
       THEN /\ context_encoder' =
                  load_state_dict(context_encoder, fs[args.resume_file]["encoder"])
            /\ pc' = "load_dist"
            /\ error' = error
       ELSE /\ Raise(LoadOutcome("encoder", context_encoder))
            /\ context_encoder' = context_encoder
    /\ UNCHANGED <<tensors, saved_from>>
    /\ UNCHANGED <<args, dataset_len, device, fs,
                   context_to_dist, decoder, epoch, batch_idx, loss, grads,
                   running_loss, epoch_loss, optimizer_steps, stdout, saves>>

\* LoadDist with the exception swallowed: the head keeps its fresh
\* parameters and the load goes on.
LoadDistLenient ==
    /\ pc = "load_dist"
    /\ IF LoadOutcome("context_to_latent_dist", context_to_dist) = "ok"
       THEN context_to_dist' =
                load_state_dict(context_to_dist,
                                fs[args.resume_file]["context_to_latent_dist"])
       ELSE context_to_dist' = context_to_dist
    /\ pc' = "load_decoder"
    /\ UNCHANGED <<tensors, saved_from>>
    /\ UNCHANGED <<error, args, dataset_len, device, fs,
                   context_encoder, decoder, epoch, batch_idx, loss, grads,
                   running_loss, epoch_loss, optimizer_steps, stdout, saves>>

LoadDist ==
    /\ pc = "load_dist"
    /\ IF LoadOutcome("context_to_latent_dist", context_to_dist) = "ok"
       THEN /\ context_to_dist' =
                  load_state_dict(context_to_dist,
                                  fs[args.resume_file]["context_to_latent_dist"])
            /\ pc' = "load_decoder"
            /\ error' = error
       ELSE /\ Raise(LoadOutcome("context_to_latent_dist", context_to_dist))
            /\ context_to_dist' = context_to_dist
    /\ UNCHANGED <<tensors, saved_from>>
    /\ UNCHANGED <<args, dataset_len, device, fs,
                   context_encoder, decoder, epoch, batch_idx, loss, grads,
                   running_loss, epoch_loss, optimizer_steps, stdout, saves>>

LoadDecoder ==
    /\ pc = "load_decoder"
    /\ IF LoadOutcome("decoder", decoder) = "ok"
       THEN /\ decoder' = load_state_dict(decoder, fs[args.resume_file]["decoder"])
            /\ pc' = "to_device"
            /\ error' = error
       ELSE /\ Raise(LoadOutcome("decoder", decoder))
            /\ decoder' = decoder
    /\ UNCHANGED <<tensors, saved_from>>
    /\ UNCHANGED <<args, dataset_len, device, fs,
                   context_encoder, context_to_dist, epoch, batch_idx, loss,
                   grads, running_loss, epoch_loss, optimizer_steps, stdout,
                   saves>>

\* main, lines 204-209: the networks go to the device, Adam is built on their
\* parameters; train, lines 114-119, builds the grid.
ToDevice ==
    /\ pc = "to_device"
    /\ context_encoder' = to(context_encoder, device)
    /\ decoder' = to(decoder, device)
    /\ context_to_dist' = to(context_to_dist, device)
    /\ pc' = "epoch_start"
    /\ UNCHANGED <<tensors, saved_from>>
    /\ UNCHANGED <<error, args, dataset_len, device, fs, epoch, batch_idx,
                   loss, grads, running_loss, epoch_loss, optimizer_steps,
                   stdout, saves>>
(* ------------------------------- train -------------------------------- *)
\* Line 121 and lines 122-124: the next epoch starts with both accumulators
\* at zero, or the loop is over.
EpochStart ==
    /\ pc = "epoch_start"
    /\ IF epoch < args.epochs
       THEN /\ epoch_loss' = Zero
            /\ running_loss' = Zero
            /\ batch_idx' = 0
            /\ pc' = "batch_start"
       ELSE /\ pc' = "final_save"
            /\ UNCHANGED <<epoch_loss, running_loss, batch_idx>>
    /\ UNCHANGED <<tensors, saved_from>>
    /\ UNCHANGED <<error, args, dataset_len, device, fs, context_encoder,
                   context_to_dist, decoder, epoch, loss, grads,
                   optimizer_steps, stdout, saves>>

\* Line 127.
LogsProgress(idx) == (idx % LogEvery = 0) /\ idx > 1

\* AfterProgress without line 133: the accumulator keeps its sum.
AfterProgressNoReset(out, acc) ==
    [stdout |-> Append(out, [kind |-> "progress", epoch |-> epoch,
                             batch |-> batch_idx,
                             sum |-> acc, over |-> LogEvery]),
     running_loss |-> acc]

\* Lines 128-133: the progress line, then the reset.
AfterProgress(out, acc) ==
    [stdout |-> Append(out, [kind |-> "progress", epoch |-> epoch,
                             batch |-> batch_idx,
                             sum |-> acc, over |-> LogEvery]),
     running_loss |-> Zero]

\* Lines 125-133: the loader hands out the next batch, or the epoch is over.
BatchStart ==
    /\ pc = "batch_start"
    /\ IF batch_idx < len_train_loader
       THEN /\ pc' = "pipeline"
            /\ IF LogsProgress(batch_idx)
               THEN /\ stdout' = AfterProgress(stdout, running_loss).stdout
                    /\ running_loss' =
                           AfterProgress(stdout, running_loss).running_loss
               ELSE UNCHANGED <<stdout, running_loss>>
       ELSE /\ pc' = "epoch_end"
            /\ UNCHANGED <<stdout, running_loss>>
    /\ UNCHANGED <<tensors, saved_from>>
    /\ UNCHANGED <<error, args, dataset_len, device, fs, context_encoder,
                   context_to_dist, decoder, epoch, batch_idx, loss, grads,
                   epoch_loss, optimizer_steps, saves>>
\* The shapes of the tensors of lines 135-158 for a batch of n images:
\* z_full is built from the batch itself, grid_input from the configured
\* batch size.
ZFullShape(n) == <<n, H * W, HiddenSize>>

GridInputShape == <<args.bsize, H * W, 2>>

\* torch.cat(..., dim=-1) wants every other dimension equal.
CatAccepted(s, t) == s[1] = t[1] /\ s[2] = t[2]

\* Lines 135-164: the forward pass and the loss of one batch; line 161 prints
\* the two terms on every hundredth batch.
Pipeline ==
    /\ pc = "pipeline"
    /\ IF CatAccepted(ZFullShape(BatchSize(batch_idx)), GridInputShape)
       THEN /\ loss' = <<epoch, batch_idx>>
            /\ stdout' = IF batch_idx % LogEvery = 0
                         THEN Append(stdout,
                                     [kind |-> "terms", epoch |-> epoch,
                                      batch |-> batch_idx,
                                      sum |-> Plus(Zero, <<epoch, batch_idx>>),
                                      over |-> 1])
                         ELSE stdout
            /\ pc' = "zero_grad"
            /\ error' = error
       ELSE /\ Raise("ShapeError")
            /\ UNCHANGED <<loss, stdout>>
    /\ UNCHANGED <<tensors, saved_from>>
    /\ UNCHANGED <<args, dataset_len, device, fs, context_encoder,
                   context_to_dist, decoder, epoch, batch_idx, grads,
                   running_loss, epoch_loss, optimizer_steps, saves>>

\* Line 165.
ZeroGrad ==
    /\ pc = "zero_grad"
    /\ grads' = "zero"
    /\ pc' = "backward"
    /\ UNCHANGED <<tensors, saved_from>>
    /\ UNCHANGED <<error, args, dataset_len, device, fs, context_encoder,
                   context_to_dist, decoder, epoch, batch_idx, loss,
                   running_loss, epoch_loss, optimizer_steps, stdout, saves>>

\* Line 166: the gradients of this batch's loss are added to what is there.
Backward ==
    /\ pc = "backward"
    /\ grads' = IF grads = "zero" THEN "of_loss" ELSE "stale"
    /\ pc' = "step"
    /\ UNCHANGED <<tensors, saved_from>>
    /\ UNCHANGED <<error, args, dataset_len, device, fs, context_encoder,
                   context_to_dist, decoder, epoch, batch_idx, loss,
                   running_loss, epoch_loss, optimizer_steps, stdout, saves>>

\* Line 167: Adam holds the parameters of all three networks (lines 207-209).
OptimizerStep ==
    /\ pc = "step"
    /\ context_encoder' = Stepped(context_encoder)
    /\ decoder' = Stepped(decoder)
    /\ context_to_dist' = Stepped(context_to_dist)
    /\ optimizer_steps' = optimizer_steps + 1
    /\ pc' = "add_loss"
    /\ UNCHANGED <<tensors, saved_from>>
    /\ UNCHANGED <<error, args, dataset_len, device, fs, epoch, batch_idx,
                   loss, grads, running_loss, epoch_loss, stdout, saves>>

\* Lines 170-171, and the loop goes on to the next batch.
AddLoss ==
    /\ pc = "add_loss"
    /\ running_loss' = Plus(running_loss, loss)
    /\ epoch_loss' = Plus(epoch_loss, loss)
    /\ batch_idx' = batch_idx + 1
    /\ pc' = "batch_start"
    /\ UNCHANGED <<tensors, saved_from>>
    /\ UNCHANGED <<error, args, dataset_len, device, fs, context_encoder,
                   context_to_dist, decoder, epoch, loss, grads,
                   optimizer_steps, stdout, saves>>

\* Line 173, and the loop goes on to the next epoch.
EpochEnd ==
    /\ pc = "epoch_end"
    /\ stdout' = Append(stdout, [kind |-> "epoch", epoch |-> epoch,
                                 batch |-> batch_idx, sum |-> epoch_loss,
                                 over |-> len_train_loader])
    /\ epoch' = epoch + 1
    /\ pc' = "epoch_start"
    /\ UNCHANGED <<tensors, saved_from>>
    /\ UNCHANGED <<error, args, dataset_len, device, fs, context_encoder,
                   context_to_dist, decoder, batch_idx, loss, grads,
                   running_loss, epoch_loss, optimizer_steps, saves>>

\* Line 174: the only save_model of the program, after the last epoch.
FinalSave ==
    /\ pc = "final_save"
    /\ LET r == save_model(fs, ModelPath(args.epochs), context_encoder,
                           context_to_dist, decoder, device)
       IN /\ fs' = r.fs
          /\ context_encoder' = r.encoder
          /\ context_to_dist' = r.context_to_latent_dist
          /\ decoder' = r.decoder
          /\ saves' = Append(saves, [path |-> ModelPath(args.epochs),
                                     epochs_done |-> epoch,
                                     dict |-> r.fs[ModelPath(args.epochs)]])
    /\ pc' = "done"
    /\ UNCHANGED <<tensors, saved_from>>
    /\ UNCHANGED <<error, args, dataset_len, device, epoch, batch_idx, loss,
                   grads, running_loss, epoch_loss, optimizer_steps, stdout>>

Next ==
    \/ NoResume
    \/ TorchLoad
    \/ LoadEncoder
    \/ LoadDist
    \/ LoadDecoder
    \/ ToDevice
    \/ EpochStart
    \/ BatchStart
    \/ Pipeline
    \/ ZeroGrad
    \/ Backward
    \/ OptimizerStep
    \/ AddLoss
    \/ EpochEnd
    \/ FinalSave

Spec == Init /\ [][Next]_vars
(* ===================== properties of main and train =================== *)
InBatch == pc \in {"pipeline", "zero_grad", "backward", "step", "add_loss"}

InLoop == InBatch \/ pc \in {"batch_start", "epoch_end"}

InTrain == InLoop \/ pc \in {"epoch_start", "final_save", "done"}

ShapeFailed == pc = "error" /\ error = "ShapeError"

\* Batch b of epoch e was handed out by the loader.
Started(e, b) ==
    \/ e < epoch /\ b < len_train_loader
    \/ /\ e = epoch
       /\ InLoop \/ ShapeFailed
       /\ b < batch_idx \/ (b = batch_idx /\ (InBatch \/ ShapeFailed))

\* The sum of the losses of batches first..last of epoch e.
LossesOf(e, first, last) == SetToBag({<<e, b>> : b \in first..last})

ProgressLines == {i \in DOMAIN stdout : stdout[i].kind = "progress"}

\* C1: every batch of every epoch runs the pipeline, then zero_grad, backward
\* and one optimizer step, then adds its loss to both accumulators; a run of
\* train makes epochs * (batches per epoch) optimizer steps in all.
C1_EveryBatchIsStepped ==
    /\ InLoop =>
          /\ optimizer_steps = epoch * len_train_loader + batch_idx
                               + (IF pc = "add_loss" THEN 1 ELSE 0)
          /\ epoch_loss = LossesOf(epoch, 0, batch_idx - 1)
          /\ ~BagIn(<<epoch, batch_idx>>, running_loss)
          /\ pc = "add_loss" => grads = "of_loss" /\ loss = <<epoch, batch_idx>>
    /\ (pc = "done" \/ ShapeFailed) =>
          optimizer_steps = args.epochs * len_train_loader

\* C2: once the batches of a later epoch run, or train is over, every ended
\* epoch whose index is a non-zero multiple of the save cadence has a
\* checkpoint written at its end.
C2_CheckpointOnCadence ==
    (InLoop \/ pc = "done") =>
        \A e \in 1..(epoch - 1) :
            e % args.save_model = 0 =>
                \E i \in DOMAIN saves :
                    /\ saves[i].epochs_done = e + 1
                    /\ DOMAIN saves[i].dict = Keys

\* The three networks hold what the resume file holds, moved on by the
\* optimizer steps made since.
LoadedFrom(m, sd) ==
    /\ LoadAccepted(m, sd)
    /\ \A l \in DOMAIN sd : m.state[l].val = sd[l].val + optimizer_steps

AllLoaded ==
    /\ args.resume_file \in DOMAIN fs
    /\ Keys \subseteq DOMAIN fs[args.resume_file]
    /\ LoadedFrom(context_encoder, fs[args.resume_file]["encoder"])
    /\ LoadedFrom(context_to_dist,
                  fs[args.resume_file]["context_to_latent_dist"])
    /\ LoadedFrom(decoder, fs[args.resume_file]["decoder"])

LoadErrors ==
    {"FileNotFoundError", "UnpicklingError", "KeyError", "RuntimeError"}

\* C4: train runs only without a resume file or with all three networks
\* loaded from it; a load that fails ends the program before any batch step.
C4_NoTrainingOnFailedLoad ==
    /\ (pc = "to_device" \/ InTrain \/ ShapeFailed) =>
          args.resume_file = NoPath \/ AllLoaded
    /\ (pc = "error" /\ error \in LoadErrors) =>
          /\ optimizer_steps = 0
          /\ loss = <<>>
          /\ stdout = <<>>
          /\ saves = <<>>

\* The load failed on the head after the encoder was loaded.
C4_FailedAfterPartialLoad ==
    /\ pc = "error"
    /\ error = "RuntimeError"
    /\ context_encoder.state = GoodState(EncoderShapes)
    /\ context_to_dist = Module(DistShapes, 0)
    /\ decoder = Module(DecoderShapes, 0)

\* C8: a progress line is printed at the start of the batches whose index is
\* a positive multiple of 100 and of no other; it reports the sum of the
\* losses of the 100 batches before it over 100; the accumulator is zero
\* right after it and at every epoch start; no loss is in two progress lines.
C8_ProgressEveryHundred ==
    /\ \A i \in ProgressLines :
          /\ stdout[i].batch % 100 = 0
          /\ stdout[i].batch > 0
          /\ Started(stdout[i].epoch, stdout[i].batch)
          /\ stdout[i].sum =
                LossesOf(stdout[i].epoch, stdout[i].batch - 100,
                         stdout[i].batch - 1)
          /\ stdout[i].over = 100
    /\ \A e \in 0..epoch, b \in 1..len_train_loader :
          (b % 100 = 0 /\ Started(e, b)) =>
              Cardinality({i \in ProgressLines :
                              stdout[i].epoch = e /\ stdout[i].batch = b}) = 1
    /\ \A i, j \in ProgressLines :
          i # j => BagToSet(stdout[i].sum) \cap BagToSet(stdout[j].sum) = {}
    /\ (pc = "batch_start" /\ batch_idx = 0) => running_loss = Zero
    /\ pc = "pipeline" =>
          running_loss = LossesOf(epoch, 100 * (batch_idx \div 100),
                                  batch_idx - 1)

\* Two progress lines of one epoch are out.
C8_TwoProgressLines ==
    \E i, j \in ProgressLines :
        /\ stdout[i].epoch = stdout[j].epoch
        /\ stdout[i].batch = 100
        /\ stdout[j].batch = 200

\* C10: no batch ends in a shape error, whatever the dataset size and the
\* batch size.
C10_NoShapeError == ~ShapeFailed
(* ================== save_model, then load_models ====================== *)
ParamValues == 0..MaxParam

\* The modules of one architecture on device d, over all parameter values.
Modules(shapes, d) ==
    {[device |-> d,
      state |-> [l \in DOMAIN shapes |-> [shape |-> shapes[l], val |-> f[l]]]] :
        f \in [DOMAIN shapes -> ParamValues]}

\* train has ended its last epoch with any parameters in the three networks.
InitCkpt ==
    /\ NoTensors
    /\ pc = "final_save"
    /\ error = "none"
    /\ \E e \in Epochs :
          args = [epochs |-> e, bsize |-> 1, save_model |-> 1,
                  resume_file |-> NoPath, models_path |-> ModelsPath]
    /\ dataset_len = 1
    /\ device \in Devices
    /\ fs = <<>>
    /\ context_encoder \in Modules(EncoderShapes, device)
    /\ context_to_dist \in Modules(DistShapes, device)
    /\ decoder \in Modules(DecoderShapes, device)
    /\ saved_from = [encoder |-> context_encoder,
                     context_to_latent_dist |-> context_to_dist,
                     decoder |-> decoder]
    /\ epoch = args.epochs
    /\ batch_idx = 0
    /\ loss = <<>>
    /\ grads = "none"
    /\ running_loss = Zero
    /\ epoch_loss = Zero
    /\ optimizer_steps = 0
    /\ stdout = <<>>
    /\ saves = <<>>

\* The program is started again on the file it wrote: main, lines 198-203,
\* builds three fresh networks and is given the file as resume_file.
Restart ==
    /\ pc = "done"
    /\ pc' = "main"
    /\ args' = [args EXCEPT !.resume_file = ModelPath(args.epochs)]
    /\ \E v \in ParamValues :
          /\ context_encoder' = Module(EncoderShapes, v)
          /\ context_to_dist' = Module(DistShapes, v)
          /\ decoder' = Module(DecoderShapes, v)
    /\ epoch' = 0
    /\ UNCHANGED <<tensors, saved_from>>
    /\ UNCHANGED <<error, dataset_len, device, fs, batch_idx, loss, grads,
                   running_loss, epoch_loss, optimizer_steps, stdout, saves>>

NextCkpt ==
    \/ FinalSave
    \/ Restart
    \/ TorchLoad
    \/ LoadEncoder
    \/ LoadDist
    \/ LoadDecoder

SpecCkpt == InitCkpt /\ [][NextCkpt]_vars

\* C3: save_model leaves the parameter values of the three networks as they
\* were and writes each under its own key; load_models on that file never
\* fails and leaves each fresh network with the parameters of the saved
\* network of the same role.
C3_SaveLoadRoundTrip ==
    /\ pc # "error"
    /\ pc = "done" =>
          /\ context_encoder = saved_from.encoder
          /\ context_to_dist = saved_from.context_to_latent_dist
          /\ decoder = saved_from.decoder
          /\ fs[ModelPath(args.epochs)] =
                [k \in Keys |-> saved_from[k].state]
    /\ pc \in {"load_dist", "load_decoder", "to_device"} =>
          context_encoder.state = saved_from.encoder.state
    /\ pc \in {"load_decoder", "to_device"} =>
          context_to_dist.state = saved_from.context_to_latent_dist.state
    /\ pc = "to_device" =>
          decoder.state = saved_from.decoder.state

\* A load has ended on fresh networks that differed from the saved ones in
\* every role, the saved encoder and decoder differing from each other.
C3_LoadedIntoFresh ==
    /\ pc = "to_device"
    /\ args.resume_file = ModelPath(args.epochs)
    /\ saved_from.encoder.state.layer1.val # 0
    /\ saved_from.encoder.state.layer1.val # saved_from.decoder.state.layer1.val
    /\ saved_from.context_to_latent_dist.state.mu_layer.val #
          saved_from.context_to_latent_dist.state.logvar_layer.val
    /\ saved_from.encoder.device = "cuda"
(* ================= the building blocks of a batch step ================ *)
\* The program is not running: only the tensors move.
NoProgram ==
    /\ saved_from = <<>>
    /\ pc = "none"
    /\ error = "none"
    /\ args = <<>>
    /\ dataset_len = 0
    /\ device = "cpu"
    /\ fs = <<>>
    /\ context_encoder = <<>>
    /\ context_to_dist = <<>>
    /\ decoder = <<>>
    /\ epoch = 0
    /\ batch_idx = 0
    /\ loss = <<>>
    /\ grads = "none"
    /\ running_loss = Zero
    /\ epoch_loss = Zero
    /\ optimizer_steps = 0
    /\ stdout = <<>>
    /\ saves = <<>>

Points == 1..MaxPoints

\* The masks random_sampling can return for an image of n points.
Masks(n) == [1..n -> {0, 1}]

RECURSIVE SumTo(_, _)
SumTo(s, n) == IF n = 0 THEN 0 ELSE SumTo(s, n - 1) + s[n]

\* tensor.sum(dim=1) of one image's one channel.
SumSeq(s) == SumTo(s, Len(s))

\* The elementwise product of two tensors of one shape.
Times(a, b) == [k \in DOMAIN a |-> a[k] * b[k]]

\* A quotient, kept as its numerator and denominator.
Quot(n, d) == [num |-> n, den |-> d]

(* ----------------------------- aggregation ---------------------------- *)
\* Line 141 with the denominator mask.sum(dim=1).
masked_aggregate_no_offset(features, m) ==
    Quot(SumSeq(Times(features, m)), SumSeq(m))

\* Line 141: (context_full * mask).sum(dim=1) / (1 + mask.sum(dim=1)).
masked_aggregate(features, m) ==
    Quot(SumSeq(Times(features, m)), 1 + SumSeq(m))

\* Line 142: context_full.mean(dim=1).
full_aggregate(features) == Quot(SumSeq(features), Len(features))

FeatureValues == {-1, 0, 2}

\* One channel of the encoder's output for one image, and the image's mask.
InitAgg ==
    /\ NoProgram
    /\ fpc = "encoded"
    /\ h = 1
    /\ w \in Points
    /\ context_full \in [1..w -> FeatureValues]
    /\ mask \in Masks(w)
    /\ grid = <<>>
    /\ batch = <<>>
    /\ context_data = <<>>
    /\ r_masked = <<>>
    /\ r_full = <<>>
    /\ z_params_full = <<>>
    /\ z_params_masked = <<>>
    /\ kl = <<>>
    /\ kl_loss = <<>>
    /\ target_input = <<>>
    /\ reconstructed_image = <<>>
    /\ reconstruction_loss = <<>>

\* Lines 140-142.
Aggregate ==
    /\ fpc = "encoded"
    /\ r_masked' = masked_aggregate(context_full, mask)
    /\ r_full' = full_aggregate(context_full)
    /\ fpc' = "aggregated"
    /\ UNCHANGED <<prog, saved_from>>
    /\ UNCHANGED <<h, w, grid, batch, mask, context_data, context_full,
                   z_params_full, z_params_masked, kl, kl_loss, target_input,
                   reconstructed_image, reconstruction_loss>>

NextAgg == Aggregate

SpecAgg == InitAgg /\ [][NextAgg]_vars

RECURSIVE SetSum(_, _)
SetSum(S, f) ==
    IF S = {} THEN 0
    ELSE LET x == CHOOSE y \in S : TRUE IN f[x] + SetSum(S \ {x}, f)

Observed == {k \in DOMAIN mask : mask[k] = 1}

\* C6: the masked aggregate is the sum of the observed points' features over
\* 1 + the number of observed points, so its denominator is at least 1 and
\* it is 0 for an all-zero mask; the full aggregate is the mean over all
\* points whatever the mask; for an all-ones mask (P + 1) * masked = P * full.
C6_Aggregates ==
    fpc = "aggregated" =>
        LET P == Len(mask) IN
        /\ r_masked.num = SetSum(Observed, context_full)
        /\ r_masked.den = 1 + Cardinality(Observed)
        /\ r_masked.den >= 1
        /\ Observed = {} => r_masked.num = 0 /\ r_masked.den = 1
        /\ r_full.num = SetSum(1..P, context_full)
        /\ r_full.den = P
        /\ Observed = 1..P =>
              (P + 1) * r_masked.num * r_full.den
                  = P * r_full.num * r_masked.den

\* The aggregates of an image with features that do not sum to 0 and no
\* observed point.
C6_AllZeroMask ==
    /\ fpc = "aggregated"
    /\ Len(mask) = MaxPoints
    /\ Observed = {}
    /\ r_full.num # 0
(* ------------------------- reconstruction loss ------------------------ *)
\* A decoder output is level / MaxLevel, a probability in [0, 1].
Levels == 0..MaxLevel

\* max(log(q), -100) with the sign turned, as a formal sum: nothing for
\* q = 1, the clamp value 100 for q = 0, and the atom -log(q) otherwise.
NegLog(q) ==
    IF q = MaxLevel THEN EmptyBag
    ELSE IF q = 0 THEN SetToBag({<<"clamp", 100>>})
    ELSE SetToBag({<<"nlog", q>>})

\* n times a formal sum, n a natural number.
Scale(n, b) ==
    IF n = 0 THEN EmptyBag ELSE [x \in DOMAIN b |-> n * b[x]]

\* F.binary_cross_entropy(p, t, reduction='none') at one pixel:
\* -(t * log(p) + (1 - t) * log(1 - p)), each log clamped at -100.
binary_cross_entropy(p, t) ==
    Scale(t, NegLog(p)) (+) Scale(1 - t, NegLog(MaxLevel - p))

RECURSIVE BagSumTo(_, _)
BagSumTo(s, n) == IF n = 0 THEN EmptyBag ELSE BagSumTo(s, n - 1) (+) s[n]

BagSum(s) == BagSumTo(s, Len(s))

\* Lines 157-158 without the factor (1 - mask).
reconstruction_loss_unweighted(recon, target, m) ==
    Quot(BagSum([n \in DOMAIN recon |->
                    BagSum([k \in DOMAIN recon[n] |->
                               binary_cross_entropy(recon[n][k],
                                                    target[n][k])])]),
         Len(recon))

\* Lines 157-158: the cross entropy of every pixel times (1 - mask), summed
\* over the pixels of an image, then the mean over the batch.
reconstruction_loss_of(recon, target, m) ==
    Quot(BagSum([n \in DOMAIN recon |->
                    BagSum([k \in DOMAIN recon[n] |->
                               Scale(1 - m[n][k],
                                     binary_cross_entropy(recon[n][k],
                                                          target[n][k]))])]),
         Len(recon))

\* The second image of the batches drawn: all pixels on, every other pixel
\* observed, the decoder undecided everywhere.
SecondImage(n) ==
    [target |-> [k \in 1..n |-> 1],
     mask |-> [k \in 1..n |-> k % 2],
     recon |-> [k \in 1..n |-> 1]]

\* A batch of two binarised images, their masks and the decoder's outputs.
InitLoss ==
    /\ NoProgram
    /\ fpc = "decoded"
    /\ h = 1
    /\ w \in 1..MaxPixels
    /\ \E t \in [1..w -> {0, 1}] : batch = <<t, SecondImage(w).target>>
    /\ \E m \in Masks(w) : mask = <<m, SecondImage(w).mask>>
    /\ \E r \in [1..w -> Levels] :
          reconstructed_image = <<r, SecondImage(w).recon>>
    /\ grid = <<>>
    /\ context_data = <<>>
    /\ context_full = <<>>
    /\ r_masked = <<>>
    /\ r_full = <<>>
    /\ z_params_full = <<>>
    /\ z_params_masked = <<>>
    /\ kl = <<>>
    /\ kl_loss = <<>>
    /\ target_input = <<>>
    /\ reconstruction_loss = <<>>

\* Lines 157-158.
ReconstructionLoss ==
    /\ fpc = "decoded"
    /\ reconstruction_loss' =
           reconstruction_loss_of(reconstructed_image, batch, mask)
    /\ fpc' = "loss"
    /\ UNCHANGED <<prog, saved_from>>
    /\ UNCHANGED <<h, w, grid, batch, mask, context_data, context_full,
                   r_masked, r_full, z_params_full, z_params_masked, kl,
                   kl_loss, target_input, reconstructed_image>>

NextLoss == ReconstructionLoss

SpecLoss == InitLoss /\ [][NextLoss]_vars

\* The outputs for one image that agree with r wherever its mask m is 0.
AgreeingImage(r, m) ==
    {[k \in DOMAIN r |-> IF m[k] = 0 THEN r[k] ELSE f[k]] :
        f \in [{k \in DOMAIN r : m[k] = 1} -> Levels]}

\* The decoder outputs for a batch of two images that agree with recon
\* wherever the mask is 0.
AgreeingOutputs(recon, m) ==
    {<<a, b>> : a \in AgreeingImage(recon[1], m[1]),
                b \in AgreeingImage(recon[2], m[2])}

\* C5: the reconstruction loss of any decoder outputs that agree with the
\* ones used wherever mask = 0 is the loss computed; it is the sum of the
\* cross entropies of the pixels with mask = 0 over the batch size.
C5_LossIgnoresObservedPixels ==
    fpc = "loss" =>
        /\ \A alt \in AgreeingOutputs(reconstructed_image, mask) :
              reconstruction_loss_of(alt, batch, mask) = reconstruction_loss
        /\ reconstruction_loss.den = Len(batch)
        /\ \A x \in BagToSet(reconstruction_loss.num) :
              CopiesIn(x, reconstruction_loss.num) =
                  Cardinality({nk \in (DOMAIN batch) \X (DOMAIN batch[1]) :
                      /\ mask[nk[1]][nk[2]] = 0
                      /\ BagIn(x, binary_cross_entropy(
                                      reconstructed_image[nk[1]][nk[2]],
                                      batch[nk[1]][nk[2]]))})

\* A loss was computed for an image with an observed pixel the decoder got
\* wrong and a held-out pixel it got half right.
C5_ObservedPixelWrong ==
    /\ fpc = "loss"
    /\ \E k \in DOMAIN mask[1] :
          /\ mask[1][k] = 1
          /\ batch[1][k] = 1
          /\ reconstructed_image[1][k] = 0
    /\ \E k \in DOMAIN mask[1] :
          /\ mask[1][k] = 0
          /\ reconstructed_image[1][k] \notin {0, MaxLevel}
(* --------------------------- KL divergence ---------------------------- *)
\* A float32 value: NaN, an infinity, or the finite number poly / den, poly a
\* polynomial in e given by its non-zero coefficients (exponent -> integer).
NaN == [kind |-> "nan", poly |-> <<>>, den |-> 1]

PInf == [kind |-> "pinf", poly |-> <<>>, den |-> 1]

NInf == [kind |-> "ninf", poly |-> <<>>, den |-> 1]

Fin(p, d) == [kind |-> "fin", poly |-> p, den |-> d]

Coef(p, e) == IF e \in DOMAIN p THEN p[e] ELSE 0

PNorm(dom, f) ==
    LET d == {e \in dom : f[e] # 0}
    IN IF d = {} THEN <<>> ELSE [e \in d |-> f[e]]

\* c * e^x
Mono(c, x) == PNorm({x}, [e \in {x} |-> c])

PAdd(p, q) ==
    LET dom == DOMAIN p \cup DOMAIN q
    IN PNorm(dom, [e \in dom |-> Coef(p, e) + Coef(q, e)])

PScale(c, p) == PNorm(DOMAIN p, [e \in DOMAIN p |-> c * p[e]])

Const(c) == Fin(Mono(c, 0), 1)

IsZero(a) == a.kind = "fin" /\ a.poly = <<>>

\* IEEE addition.
FAdd(a, b) ==
    CASE a.kind = "nan" \/ b.kind = "nan" -> NaN
      [] a.kind = "pinf" -> IF b.kind = "ninf" THEN NaN ELSE PInf
      [] a.kind = "ninf" -> IF b.kind = "pinf" THEN NaN ELSE NInf
      [] b.kind \in {"pinf", "ninf"} -> b
      [] OTHER ->
            IF a.den = b.den
            THEN Fin(PAdd(a.poly, b.poly), a.den)
            ELSE Fin(PAdd(PScale(b.den, a.poly), PScale(a.den, b.poly)),
                     a.den * b.den)

FNeg(a) ==
    CASE a.kind = "pinf" -> NInf
      [] a.kind = "ninf" -> PInf
      [] a.kind = "nan" -> NaN
      [] OTHER -> Fin(PScale(-1, a.poly), a.den)

FSub(a, b) == FAdd(a, FNeg(b))

\* e^x in float32, or what it rounds to.
ExpOf(x) ==
    IF x > ExpMax THEN PInf
    ELSE IF x < ExpMin THEN Const(0)
    ELSE Fin(Mono(1, x), 1)

\* tensor.exp() of a log-variance.
FExp(x) == ExpOf(x)

\* torch.log of a variance, which is 0, +inf or e^x.
FLog(v) ==
    CASE v.kind = "pinf" -> PInf
      [] v.kind = "nan" -> NaN
      [] IsZero(v) -> NInf
      [] OTHER -> Const(CHOOSE x \in DOMAIN v.poly : TRUE)

\* a / v in float32, a being 0, +inf or c * e^x with c > 0, and v a variance.
FDiv(a, v) ==
    CASE a.kind = "nan" \/ v.kind = "nan" -> NaN
      [] IsZero(v) -> IF IsZero(a) THEN NaN ELSE PInf
      [] v.kind = "pinf" -> IF a.kind = "pinf" THEN NaN ELSE Const(0)
      [] a.kind = "pinf" -> PInf
      [] IsZero(a) -> Const(0)
      [] OTHER ->
            LET x == CHOOSE e \in DOMAIN a.poly : TRUE
                y == CHOOSE e \in DOMAIN v.poly : TRUE
                q == ExpOf(x - y)
            IN IF q.kind = "fin"
               THEN Fin(PScale(a.poly[x], q.poly), 1)
               ELSE q

\* 0.5 * a
FHalf(a) == IF a.kind = "fin" THEN Fin(a.poly, 2 * a.den) ELSE a

RECURSIVE FSumTo(_, _)
FSumTo(s, n) == IF n = 0 THEN Const(0) ELSE FAdd(FSumTo(s, n - 1), s[n])

\* tensor.sum(-1)
FSum(s) == FSumTo(s, Len(s))

\* tensor.mean()
FMean(s) ==
    LET t == FSum(s)
    IN IF t.kind = "fin" THEN Fin(t.poly, t.den * Len(s)) ELSE t

\* Two finite values are the same number.
FEq(a, b) ==
    /\ a.kind = b.kind
    /\ a.kind = "fin" => PScale(b.den, a.poly) = PScale(a.den, b.poly)

\* Line 98 at one latent dimension of one image.
element_wise(mu1, var1, mu2, var2) ==
    FHalf(FSub(FAdd(FAdd(FSub(FLog(var2), FLog(var1)), FDiv(var1, var2)),
                    FDiv(Const((mu1 - mu2) * (mu1 - mu2)), var2)),
               Const(1)))

\* kl_normal with the roles of its two arguments exchanged.
kl_normal_reversed(params1, params2) ==
    [n \in DOMAIN params1[1] |->
        FSum([d \in DOMAIN params1[1][n] |->
                 element_wise(params2[1][n][d], FExp(params2[2][n][d]),
                              params1[1][n][d], FExp(params1[2][n][d]))])]

\* Lines 93-100: params = (mean, log-variance), each batch x latent.
kl_normal(params1, params2) ==
    [n \in DOMAIN params1[1] |->
        FSum([d \in DOMAIN params1[1][n] |->
                 element_wise(params1[1][n][d], FExp(params1[2][n][d]),
                              params2[1][n][d], FExp(params2[2][n][d]))])]

MuValues == {0, 1}

\* Log-variances inside the range of exp, and one beyond it on either side.
LogVars == {ExpMin - 1, 0, 1, ExpMax + 1}

\* The latent head's outputs for a batch of two images: any values for the
\* first, fixed ones for the second (whose divergence is z / 2).
InitKl ==
    /\ NoProgram
    /\ fpc = "latent"
    /\ \E z \in 1..MaxLatent :
          /\ \E mu \in [1..z -> MuValues], lv \in [1..z -> LogVars] :
                z_params_full = <<<<mu, [d \in 1..z |-> 1]>>,
                                  <<lv, [d \in 1..z |-> 0]>>>>
          /\ \E lv \in [1..z -> LogVars] :
                z_params_masked = <<<<[d \in 1..z |-> 0], [d \in 1..z |-> 0]>>,
                                    <<lv, [d \in 1..z |-> 0]>>>>
    /\ h = 1
    /\ w = 1
    /\ grid = <<>>
    /\ batch = <<>>
    /\ mask = <<>>
    /\ context_data = <<>>
    /\ context_full = <<>>
    /\ r_masked = <<>>
    /\ r_full = <<>>
    /\ kl = <<>>
    /\ kl_loss = <<>>
    /\ target_input = <<>>
    /\ reconstructed_image = <<>>
    /\ reconstruction_loss = <<>>

\* kl_normal on one pair of parameters as both arguments.
KlSelf ==
    /\ fpc = "latent"
    /\ kl' = kl_normal(z_params_full, z_params_full)
    /\ fpc' = "self"
    /\ UNCHANGED <<prog, saved_from>>
    /\ UNCHANGED <<h, w, grid, batch, mask, context_data, context_full,
                   r_masked, r_full, z_params_full, z_params_masked,
                   kl_loss, target_input, reconstructed_image,
                   reconstruction_loss>>

\* Line 160.
KlTrain ==
    /\ fpc = "latent"
    /\ kl' = kl_normal(z_params_full, z_params_masked)
    /\ kl_loss' = FMean(kl')
    /\ fpc' = "train"
    /\ UNCHANGED <<prog, saved_from>>
    /\ UNCHANGED <<h, w, grid, batch, mask, context_data, context_full,
                   r_masked, r_full, z_params_full, z_params_masked,
                   target_input, reconstructed_image, reconstruction_loss>>

NextKl ==
    \/ KlSelf
    \/ KlTrain

SpecKl == InitKl /\ [][NextKl]_vars

\* exp of every log-variance of image n is finite and not 0.
InExpRange(params, n) ==
    \A d \in DOMAIN params[2][n] :
        params[2][n][d] >= ExpMin /\ params[2][n][d] <= ExpMax

\* D_KL(N(muf, e^lvf) || N(mum, e^lvm)) summed over the latent dimensions:
\* sum of ((lvm - lvf) + e^(lvf - lvm) + (muf - mum)^2 * e^(-lvm) - 1) / 2.
RECURSIVE ClosedForm(_, _, _, _, _)
ClosedForm(muf, lvf, mum, lvm, z) ==
    IF z = 0 THEN <<>>
    ELSE PAdd(ClosedForm(muf, lvf, mum, lvm, z - 1),
              PAdd(PAdd(Mono(lvm[z] - lvf[z] - 1, 0),
                        Mono(1, lvf[z] - lvm[z])),
                   Mono((muf[z] - mum[z]) * (muf[z] - mum[z]), 0 - lvm[z])))

\* C7: kl_normal of a pair with itself is 0 for every input.
C7_SelfKlIsZero ==
    fpc = "self" => \A n \in DOMAIN kl : IsZero(kl[n])

\* What holds of kl_normal: of a pair with itself it is 0 whenever exp of
\* every log-variance is finite and not 0, and NaN otherwise; train's kl_loss
\* is the mean over the batch of D_KL(full || masked) summed over the latent
\* dimensions.
SelfKlIsZeroInRange ==
    /\ fpc = "self" =>
          \A n \in DOMAIN kl :
              IF InExpRange(z_params_full, n)
              THEN IsZero(kl[n])
              ELSE kl[n].kind = "nan"
    /\ fpc = "train" =>
          /\ \A n \in DOMAIN kl :
                (InExpRange(z_params_full, n) /\ InExpRange(z_params_masked, n))
                    => FEq(kl[n],
                           Fin(ClosedForm(z_params_full[1][n],
                                          z_params_full[2][n],
                                          z_params_masked[1][n],
                                          z_params_masked[2][n],
                                          Len(z_params_full[1][n])), 2))
          /\ FEq(kl_loss, FMean(kl))
          /\ kl_loss.kind = "fin" => kl_loss.den = 2 * Len(kl)

\* kl_normal was applied to a pair with itself, the means and the
\* log-variances not all 0 and exp of all of them finite.
C7_SelfKlInRange ==
    /\ fpc = "self"
    /\ InExpRange(z_params_full, 1)
    /\ Len(z_params_full[1][1]) = MaxLatent
    /\ \E d \in DOMAIN z_params_full[1][1] : z_params_full[1][1][d] = 1
    /\ \E d \in DOMAIN z_params_full[2][1] : z_params_full[2][1][d] = 1
(* ------------------------------ the grid ------------------------------ *)
\* np.linspace(0, 1, n): n evenly spaced numbers, both ends included.
linspace(n) ==
    [i \in 1..n |-> IF n = 1 THEN Quot(0, 1) ELSE Quot(i - 1, n - 1)]

\* np.meshgrid(xs, ys, indexing='ij'): arrays of shape (len(xs), len(ys)).
meshgrid_ij(xs, ys) ==
    [xx |-> [i \in DOMAIN xs |-> [j \in DOMAIN ys |-> xs[i]]],
     yy |-> [i \in DOMAIN xs |-> [j \in DOMAIN ys |-> ys[j]]]]

\* np.meshgrid(xs, ys) with its default indexing='xy': arrays of shape
\* (len(ys), len(xs)), xx[i][j] = xs[j] and yy[i][j] = ys[i].
meshgrid(xs, ys) ==
    [xx |-> [i \in DOMAIN ys |-> [j \in DOMAIN xs |-> xs[j]]],
     yy |-> [i \in DOMAIN ys |-> [j \in DOMAIN xs |-> ys[i]]]]

\* np.stack([xx, yy], axis=-1)
stack(xx, yy) ==
    [i \in DOMAIN xx |-> [j \in DOMAIN xx[i] |-> <<xx[i][j], yy[i][j]>>]]

\* tensor.view(n, ...) of a two-dimensional array: its rows one after the
\* other.
view(a, n) ==
    LET cols == Len(a[1])
    IN [k \in 1..n |-> a[((k - 1) \div cols) + 1][((k - 1) % cols) + 1]]

\* Lines 116-119.
make_grid(hh, ww) ==
    LET xs == linspace(hh)
        ys == linspace(ww)
        m == meshgrid(xs, ys)
    IN view(stack(m.xx, m.yy), hh * ww)

\* Lines 83, 88 and 90: the pixel values of every image, flattened, each
\* with the grid point of its index.
context_of(images, g, hh, ww) ==
    [n \in DOMAIN images |->
        LET flat == view(images[n], hh * ww)
        IN [k \in 1..(hh * ww) |-> <<flat[k], g[k][1], g[k][2]>>]]

\* Lines 149-153: the latent sample of every image, repeated for every grid
\* point and joined with it.
target_input_of(z_full, g) ==
    [n \in DOMAIN z_full |->
        [k \in DOMAIN g |-> <<z_full[n], g[k][1], g[k][2]>>]]

\* The hh x ww images drawn: the two checkerboards.
Images(hh, ww) ==
    {[r \in 1..hh |-> [c \in 1..ww |-> (r + c + b) % 2]] : b \in {0, 1}}

\* train is entered with a batch of one image of h x w pixels.
InitGrid ==
    /\ NoProgram
    /\ fpc = "start"
    /\ h \in 1..MaxSide
    /\ w \in 1..MaxSide
    /\ \E img \in Images(h, w) : batch = <<img>>
    /\ grid = <<>>
    /\ mask = <<>>
    /\ context_data = <<>>
    /\ context_full = <<>>
    /\ r_masked = <<>>
    /\ r_full = <<>>
    /\ z_params_full = <<>>
    /\ z_params_masked = <<>>
    /\ kl = <<>>
    /\ kl_loss = <<>>
    /\ target_input = <<>>
    /\ reconstructed_image = <<>>
    /\ reconstruction_loss = <<>>

\* Lines 116-119.
MakeGrid ==
    /\ fpc = "start"
    /\ grid' = make_grid(h, w)
    /\ fpc' = "grid"
    /\ UNCHANGED <<prog, saved_from>>
    /\ UNCHANGED <<h, w, batch, mask, context_data, context_full, r_masked,
                   r_full, z_params_full, z_params_masked, kl, kl_loss,
                   target_input, reconstructed_image, reconstruction_loss>>

\* random_sampling, lines 81-90: every mask can come out of the two draws.
RandomSampling ==
    /\ fpc = "grid"
    /\ \E m \in Masks(h * w) : mask' = [n \in DOMAIN batch |-> m]
    /\ context_data' = context_of(batch, grid, h, w)
    /\ fpc' = "sampled"
    /\ UNCHANGED <<prog, saved_from>>
    /\ UNCHANGED <<h, w, grid, batch, context_full, r_masked,
                   r_full, z_params_full, z_params_masked, kl, kl_loss,
                   target_input, reconstructed_image, reconstruction_loss>>

\* Lines 148-153.
TargetInput ==
    /\ fpc = "sampled"
    /\ target_input' = target_input_of([n \in DOMAIN batch |-> "z"], grid)
    /\ fpc' = "queried"
    /\ UNCHANGED <<prog, saved_from>>
    /\ UNCHANGED <<h, w, grid, batch, mask, context_data, context_full,
                   r_masked, r_full, z_params_full, z_params_masked, kl,
                   kl_loss, reconstructed_image, reconstruction_loss>>

NextGrid ==
    \/ MakeGrid
    \/ RandomSampling
    \/ TargetInput

SpecGrid == InitGrid /\ [][NextGrid]_vars

\* Position i of n evenly spaced positions from 0 to 1, i counted from 0.
Norm(i, n) == IF n = 1 THEN Quot(0, 1) ELSE Quot(i, n - 1)

RatEq(a, b) == a.num * b.den = b.num * a.den

PointEq(p, x, y) == RatEq(p[1], x) /\ RatEq(p[2], y)

\* C9, as stated: the point at flat index r*W + c is (row position of r,
\* column position of c); the 2 x 2 grid is (0,0), (0,1), (1,0), (1,1).
C9_GridRowFirst ==
    fpc # "start" =>
        /\ Len(grid) = h * w
        /\ \A r \in 0..(h - 1), c \in 0..(w - 1) :
              PointEq(grid[r * w + c + 1], Norm(r, h), Norm(c, w))
        /\ (h = 2 /\ w = 2) =>
              /\ PointEq(grid[1], Quot(0, 1), Quot(0, 1))
              /\ PointEq(grid[2], Quot(0, 1), Quot(1, 1))
              /\ PointEq(grid[3], Quot(1, 1), Quot(0, 1))
              /\ PointEq(grid[4], Quot(1, 1), Quot(1, 1))

\* C9, amended: the grid has h*w points; for a square image the point at
\* flat index r*w + c is (column position of c, row position of r), the
\* column coordinate first, and the 2 x 2 grid is (0,0), (1,0), (0,1), (1,1);
\* pixel r*w + c of the flattened image is joined with that point, and the
\* decoder's query at that index holds the same point.
C9_GridColumnFirst ==
    /\ fpc # "start" =>
          /\ Len(grid) = h * w
          /\ h = w =>
                \A r \in 0..(h - 1), c \in 0..(w - 1) :
                    PointEq(grid[r * w + c + 1], Norm(c, w), Norm(r, h))
          /\ (h = 2 /\ w = 2) =>
                /\ PointEq(grid[1], Quot(0, 1), Quot(0, 1))
                /\ PointEq(grid[2], Quot(1, 1), Quot(0, 1))
                /\ PointEq(grid[3], Quot(0, 1), Quot(1, 1))
                /\ PointEq(grid[4], Quot(1, 1), Quot(1, 1))
    /\ fpc \in {"sampled", "queried"} =>
          \A n \in DOMAIN batch :
              \A r \in 0..(h - 1), c \in 0..(w - 1) :
                  LET k == r * w + c + 1
                  IN /\ context_data[n][k][1] = batch[n][r + 1][c + 1]
                     /\ context_data[n][k][2] = grid[k][1]
                     /\ context_data[n][k][3] = grid[k][2]
    /\ fpc = "queried" =>
          \A n \in DOMAIN batch :
              /\ Len(target_input[n]) = Len(context_data[n])
              /\ \A k \in DOMAIN grid :
                    /\ target_input[n][k][2] = context_data[n][k][2]
                    /\ target_input[n][k][3] = context_data[n][k][3]

\* The context and the queries of a 2 x 2 image are built, some pixels
\* observed and some not.
C9_TwoByTwoQueried ==
    /\ fpc = "queried"
    /\ h = 2
    /\ w = 2
    /\ mask[1] = <<1, 0, 1, 0>>
====
